---- MODULE Spec2Model ----
(***************************************************************************)
(* SupplyChain.py: a linear script that loads a CSV table, drops rows with *)
(* missing values, and appends a fixed battery of figures to a PDF, then   *)
(* optionally writes a folium heatmap, then closes the PDF.                *)
(*                                                                         *)
(* The numeric content of the table is abstracted: a cell is either        *)
(* missing (NA) or present, and the data's absolute correlations are an    *)
(* input `assoc` in hundredths (0..100).  Rendering calls that the script  *)
(* does not guard and that do not depend on the modelled state are assumed *)
(* to succeed; the failures modelled are the ones the script's own         *)
(* expressions produce (no file, zero grid rows, missing key, oversized    *)
(* sample).                                                                *)
(***************************************************************************)
EXTENDS Integers, Sequences, FiniteSets, Bags, TLC

----------------------------------------------------------------------------
(* Generic helpers *)

Range(s) == {s[i] : i \in 1..Len(s)}

Min(a, b) == IF a < b THEN a ELSE b

\* math.ceil(a / b) for a >= 0, b > 0
Ceil(a, b) == (a + b - 1) \div b

\* Position of x in the sequence s (x occurs once)
Pos(s, x) == CHOOSE i \in 1..Len(s) : s[i] = x

RECURSIVE KSubsets(_, _)
\* The subsets of S with exactly k elements
KSubsets(S, k) ==
    IF k = 0 THEN {{}}
    ELSE UNION {{T \cup {x} : x \in S \ T} : T \in KSubsets(S, k - 1)}

----------------------------------------------------------------------------
(* The schema of the data set: column names in file order, and their dtype *)

Schema ==
    << "Product type", "Product name", "Price", "Availability",
       "Revenue generated", "Stock levels", "Lead times", "Order quantities",
       "Shipping mode", "Product category", "Customer segment", "Region",
       "Defect rates", "Latitude", "Longitude" >>

IntColumns == {"Availability", "Stock levels", "Lead times", "Order quantities"}

FloatColumns == {"Price", "Revenue generated", "Defect rates", "Latitude", "Longitude"}

Dtype(c) ==
    IF c \in IntColumns THEN "int64"
    ELSE IF c \in FloatColumns THEN "float64"
    ELSE "object"

\* The columns of a set, in file order
InFileOrder(S) ==
    LET keep(c) == c \in S IN SelectSeq(Schema, keep)

NA == "NA"

Present == "x"

NaN == -1

\* |corr| of a column with itself, in hundredths
One == 100

\* The numerical columns of the schema, in file order
NumericSchema ==
    LET keep(c) == Dtype(c) \in {"int64", "float64"} IN SelectSeq(Schema, keep)

\* Data without coincidences: every unordered pair of columns has its own
\* absolute correlation, below 1
Generic(a, b) ==
    IF a = b THEN One
    ELSE LET i == Pos(NumericSchema, a)
             j == Pos(NumericSchema, b)
         IN  IF i < j THEN 10 * i + j ELSE 10 * j + i

----------------------------------------------------------------------------
(* The input files the model is run on *)

\* Rows of the schema-variety and tie tables
SchemaRows == 3

\* Longest table whose rows may have missing cells
MaxRows == 2

\* Number of distinct absolute correlations below 1 in the tie tables
TieDepth == 1

\* Rows of the end-to-end scenario table
ScenarioRows == 50

\* The cap of the pairplot sample
SampleCap == 500

\* The scatter plot limit
ScatterLimit == 5

\* Columns the script names
NamedColumns ==
    { "Revenue generated", "Product type", "Defect rates", "Shipping mode",
      "Product category", "Customer segment", "Region", "Product name",
      "Latitude", "Longitude" }

ScenarioColumns ==
    { "Revenue generated", "Region", "Product name",
      "Price", "Availability", "Stock levels" }

LoaderColumns == {"Revenue generated", "Latitude", "Longitude"}

\* The columns of the loader tables that may have missing cells
GappyColumns == {"Revenue generated", "Latitude"}

TieColumns == {"Revenue generated", "Latitude", "Longitude"}

Numeric(S) == {c \in S : Dtype(c) \in {"int64", "float64"}}

CompleteRows(S, n) == [i \in 1..n |-> [c \in S |-> Present]]

GenericAssoc(S) == [p \in Numeric(S) \X Numeric(S) |-> Generic(p[1], p[2])]

\* Correlation structures with ties: symmetric, a constant column has NaN
\* against every column (itself included), the others 1 with themselves
TieAssocs(S) ==
    LET Levels == {One - k : k \in 0..TieDepth}
    IN  { a \in [S \X S -> Levels \cup {NaN}] :
            /\ \A c, d \in S : a[<<c, d>>] = a[<<d, c>>]
            /\ \A c \in S : a[<<c, c>>] \in {One, NaN}
            /\ \A c, d \in S :
                 a[<<c, d>>] = NaN <=> (a[<<c, c>>] = NaN \/ a[<<d, d>>] = NaN) }

Table(S, rws, a) ==
    [readable |-> TRUE, columns |-> InFileOrder(S), rows |-> rws, assoc |-> a]

NoFile == [readable |-> FALSE, columns |-> <<>>, rows |-> <<>>, assoc |-> <<>>]

SchemaTables ==
    { Table(S, CompleteRows(S, SchemaRows), GenericAssoc(S)) :
        S \in (SUBSET NamedColumns) \ {{}} }

LoaderRows ==
    { r \in [LoaderColumns -> {NA, Present}] :
        \A c \in LoaderColumns \ GappyColumns : r[c] = Present }

LoaderTables ==
    { Table(LoaderColumns, rws, GenericAssoc(LoaderColumns)) :
        rws \in UNION {[1..n -> LoaderRows] : n \in 0..MaxRows} }

TieTables ==
    UNION { { Table(S, CompleteRows(S, SchemaRows), a) : a \in TieAssocs(S) } :
            S \in (SUBSET TieColumns) \ {{}} }

ScenarioTable ==
    Table(ScenarioColumns, CompleteRows(ScenarioColumns, ScenarioRows),
          GenericAssoc(ScenarioColumns))

WideTables ==
    { LET S == {NumericSchema[i] : i \in 1..k}
      IN  Table(S, CompleteRows(S, SchemaRows), GenericAssoc(S)) :
        k \in 1..Len(NumericSchema) }

BigTables ==
    { Table({"Revenue generated"}, CompleteRows({"Revenue generated"}, n),
            GenericAssoc({"Revenue generated"})) :
        n \in (SampleCap - 1)..(SampleCap + 1) }

Inputs ==
    SchemaTables \cup LoaderTables \cup TieTables \cup WideTables
        \cup BigTables \cup {ScenarioTable, NoFile}

----------------------------------------------------------------------------
(* State *)

VARIABLES
    input,              \* the content of supply_chain_data.csv
    pc,                 \* the section of the script that runs next
    failedAt,           \* the section that raised, "" while none has
    df,                 \* the Table
    numerical_cols,
    categorical_cols,
    pdf,                \* the PdfPages document
    console,            \* the lines printed
    corr,               \* |corr|, in hundredths
    pending,            \* entries of top_pairs.index the loop has not reached
    seen,
    count,
    sample,             \* the rows drawn for the pairplot, a bag of row labels
    df_map,             \* the rows of the geospatial copy
    heatmaps            \* number of times supply_chain_heatmap.html was saved

vars ==
    << input, pc, failedAt, df, numerical_cols, categorical_cols, pdf, console,
       corr, pending, seen, count, sample, df_map, heatmaps >>

MsgViolinSkipped == "Skipping Violin Plot: 'Product type' or 'Defect rates' columns not found."

MsgMapSaved == "Interactive heatmap saved to 'supply_chain_heatmap.html'"

MsgMapNoData == "Skipping map generation: No valid Latitude/Longitude data after dropping NaNs."

MsgMapNoColumns == "Skipping map generation: 'Latitude', 'Longitude', or 'Revenue generated' columns not found."

MsgPdfCreated == "PDF 'supply_chain_analysis_graphs.pdf' created with all visualizations."

NoTable == [columns |-> <<>>, dtypes |-> <<>>, rows |-> <<>>]

NoPdf == [opened |-> 0, closed |-> 0, figs |-> <<>>]

Init ==
    /\ input \in Inputs
    /\ pc = "Load"
    /\ failedAt = ""
    /\ df = NoTable
    /\ numerical_cols = <<>>
    /\ categorical_cols = <<>>
    /\ pdf = NoPdf
    /\ console = <<>>
    /\ corr = <<>>
    /\ pending = {}
    /\ seen = {}
    /\ count = 0
    /\ sample = EmptyBag
    /\ df_map = <<>>
    /\ heatmaps = 0

\* An uncaught exception ends the script in section s
Raise(s) ==
    /\ pc' = "aborted"
    /\ failedAt' = s

\* Variant: dropna(how='all'), which keeps a row unless all its cells are missing
dropnaHowAll(rws, subset) ==
    LET some(r) == \E c \in subset : r.cells[c] # NA
    IN  SelectSeq(rws, some)

\* df.dropna(subset=...): the rows with no missing cell in the columns of subset
dropna(rws, subset) ==
    LET complete(r) == \A c \in subset : r.cells[c] # NA
    IN  SelectSeq(rws, complete)

\* The dtype pd.read_csv infers for column c: a column with no value at all
\* (no rows) is object, a column whose every cell is missing is float64
infer_dtype(file, c) ==
    IF Len(file.rows) = 0 THEN "object"
    ELSE IF \A i \in 1..Len(file.rows) : file.rows[i][c] = NA THEN "float64"
    ELSE Dtype(c)

\* pd.read_csv: the rows of the file, labelled by position
read_csv(file) ==
    [columns |-> file.columns,
     dtypes |-> [c \in Range(file.columns) |-> infer_dtype(file, c)],
     rows |-> [i \in 1..Len(file.rows) |-> [idx |-> i, cells |-> file.rows[i]]]]

\* Lines 11-15
Load ==
    /\ pc = "Load"
    /\ IF ~input.readable
       THEN /\ Raise("Load")
            /\ UNCHANGED df
       ELSE /\ df' = [read_csv(input) EXCEPT
                        !.rows = dropna(@, Range(input.columns))]
            /\ pc' = "Select"
            /\ UNCHANGED failedAt
    /\ UNCHANGED << input, numerical_cols, categorical_cols, pdf, console, corr,
                    pending, seen, count, sample, df_map, heatmaps >>

\* df.select_dtypes(include=...).columns
select_dtypes(include) ==
    LET keep(c) == df.dtypes[c] \in include IN SelectSeq(df.columns, keep)

\* Lines 17-19
Select ==
    /\ pc = "Select"
    /\ numerical_cols' = select_dtypes({"int64", "float64"})
    /\ categorical_cols' = select_dtypes({"object", "category"})
    /\ pc' = "InitPdf"
    /\ UNCHANGED << input, failedAt, df, pdf, console, corr, pending, seen,
                    count, sample, df_map, heatmaps >>

\* Lines 21-22
InitPdf ==
    /\ pc = "InitPdf"
    /\ pdf' = [pdf EXCEPT !.opened = @ + 1]
    /\ pc' = "BoxPlot"
    /\ UNCHANGED << input, failedAt, df, numerical_cols, categorical_cols,
                    console, corr, pending, seen, count, sample, df_map, heatmaps >>

\* One rendered figure: its kind, the columns it is about, its sub-panels
Figure(kind, of, axs) == [kind |-> kind, of |-> of, axs |-> axs]

\* pdf.savefig() of each figure of figs, in order
savefig(figs) == pdf' = [pdf EXCEPT !.figs = @ \o figs]

\* 'c' in df.columns
Has(c) == c \in Range(df.columns)

\* Lines 24-31 (with no numerical column the script fails in the next
\* section at the latest)
BoxPlot ==
    /\ pc = "BoxPlot"
    /\ savefig(<< Figure("Box Plot", numerical_cols, <<>>) >>)
    /\ pc' = "Histogram"
    /\ UNCHANGED << input, failedAt, df, numerical_cols, categorical_cols,
                    console, corr, pending, seen, count, sample, df_map, heatmaps >>

\* cols = 4
GridCols == 4

\* Variant: rows = len(numerical_cols) // cols + 1
GridRowsFloorPlusOne(n) == n \div GridCols + 1

\* rows = math.ceil(len(numerical_cols) / cols)
GridRows(n) == Ceil(n, GridCols)

\* The flattened axs after the two loops of a grid section: the enumerate
\* loop draws column number i on axs[i], the second loop turns off axs[j]
\* for j in range(i + 1, len(axs)), i being the last index of the first loop
Grid(size) ==
    LET n == Len(numerical_cols)
        i == n - 1
    IN  [k \in 1..size |->
            [drawn |-> IF k - 1 \in 0..(n - 1) THEN << numerical_cols[k] >> ELSE <<>>,
             off |-> k - 1 \in (i + 1)..(size - 1)]]

\* A grid section: plt.subplots rejects zero rows, axs[i] a cell past the end
GridSection(section, kind, next) ==
    /\ pc = section
    /\ LET size == GridRows(Len(numerical_cols)) * GridCols
       IN  IF GridRows(Len(numerical_cols)) = 0 \/ Len(numerical_cols) > size
           THEN /\ Raise(section)
                /\ UNCHANGED pdf
           ELSE /\ savefig(<< Figure(kind, <<>>, Grid(size)) >>)
                /\ pc' = next
                /\ UNCHANGED failedAt
    /\ UNCHANGED << input, df, numerical_cols, categorical_cols, console, corr,
                    pending, seen, count, sample, df_map, heatmaps >>

\* Lines 33-45
Histogram == GridSection("Histogram", "Histogram Grid", "KDE")

\* Lines 47-60
KDE == GridSection("KDE", "KDE Grid", "LinePlot")

\* Lines 63-72
LinePlot ==
    /\ pc = "LinePlot"
    /\ IF Has("Revenue generated")
       THEN savefig(<< Figure("Revenue Line Plot", << "Revenue generated" >>, <<>>) >>)
       ELSE UNCHANGED pdf
    /\ pc' = "Heatmap"
    /\ UNCHANGED << input, failedAt, df, numerical_cols, categorical_cols,
                    console, corr, pending, seen, count, sample, df_map, heatmaps >>

\* df[numerical_cols].corr(), in absolute value: NaN everywhere when the
\* Table has fewer than two rows
AbsCorr ==
    [p \in Range(numerical_cols) \X Range(numerical_cols) |->
        IF Len(df.rows) < 2 THEN NaN ELSE input.assoc[p]]

\* Lines 74-81
Heatmap ==
    /\ pc = "Heatmap"
    /\ corr' = AbsCorr
    /\ savefig(<< Figure("Correlation Heatmap", numerical_cols, <<>>) >>)
    /\ pc' = "Violin"
    /\ UNCHANGED << input, failedAt, df, numerical_cols, categorical_cols,
                    console, pending, seen, count, sample, df_map, heatmaps >>

\* Lines 83-94
Violin ==
    /\ pc = "Violin"
    /\ IF Has("Product type") /\ Has("Defect rates")
       THEN /\ savefig(<< Figure("Violin Plot", << "Product type", "Defect rates" >>, <<>>) >>)
            /\ UNCHANGED console
       ELSE /\ console' = Append(console, MsgViolinSkipped)
            /\ UNCHANGED pdf
    /\ pc' = "Frequency"
    /\ UNCHANGED << input, failedAt, df, numerical_cols, categorical_cols,
                    corr, pending, seen, count, sample, df_map, heatmaps >>

\* Lines 97-105
Frequency ==
    /\ pc = "Frequency"
    /\ savefig([i \in 1..Len(categorical_cols) |->
                   Figure("Frequency Bars", << categorical_cols[i] >>, <<>>)])
    /\ pc' = "ScatterSort"
    /\ UNCHANGED << input, failedAt, df, numerical_cols, categorical_cols,
                    console, corr, pending, seen, count, sample, df_map, heatmaps >>

\* Lines 108-110: top_pairs holds every (col1, col2) entry of the matrix
ScatterSort ==
    /\ pc = "ScatterSort"
    /\ pending' = DOMAIN corr
    /\ seen' = {}
    /\ count' = 0
    /\ pc' = "ScatterLoop"
    /\ UNCHANGED << input, failedAt, df, numerical_cols, categorical_cols, pdf,
                    console, corr, sample, df_map, heatmaps >>

\* sort_values(ascending=False): the entries that may come next are the
\* pending ones of greatest value, NaN last; quicksort fixes no order
\* among equal values
NextInOrder == {e \in pending : \A f \in pending : corr[f] <= corr[e]}

\* Variant: the membership test on the pair itself, not its reverse
QualifiesSameOrder(col1, col2) == col1 # col2 /\ << col1, col2 >> \notin seen

\* Variant: no test for self-pairs
QualifiesSelfPairs(col1, col2) == << col2, col1 >> \notin seen

\* if col1 != col2 and (col2, col1) not in seen
Qualifies(col1, col2) == col1 # col2 /\ << col2, col1 >> \notin seen

\* Variant: if count > 5: break
LimitReachedLate(c) == c > ScatterLimit

\* if count >= 5: break
LimitReached(c) == c >= ScatterLimit

\* Lines 111-122: one iteration of the for loop
ScatterLoop ==
    /\ pc = "ScatterLoop"
    /\ \E e \in NextInOrder :
         IF Qualifies(e[1], e[2])
         THEN /\ savefig(<< Figure("Scatter Plot", << e[1], e[2] >>, <<>>) >>)
              /\ seen' = seen \cup {e}
              /\ count' = count + 1
              /\ IF LimitReached(count + 1) \/ pending = {e}
                 THEN pending' = {} /\ pc' = "Pairplot"
                 ELSE pending' = pending \ {e} /\ pc' = pc
         ELSE /\ UNCHANGED << pdf, seen, count >>
              /\ pending' = pending \ {e}
              /\ pc' = IF pending = {e} THEN "Pairplot" ELSE pc
    /\ UNCHANGED << input, failedAt, df, numerical_cols, categorical_cols,
                    console, corr, sample, df_map, heatmaps >>

\* Variant: n=500 if len(df) > 1 else 1
SampleSizeNoMin(len) == IF len > 1 THEN SampleCap ELSE 1

\* Variant: n=min(500, len(df))
SampleSizeNoFloor(len) == Min(SampleCap, len)

\* n=min(500, len(df)) if len(df) > 1 else 1
SampleSize(len) == IF len > 1 THEN Min(SampleCap, len) ELSE 1

\* DataFrame.sample(n) draws without replacement: the outcomes are the
\* choices of n different rows, each drawn once
Sample(labels, n) ==
    {SetToBag(labels \ out) : out \in KSubsets(labels, Cardinality(labels) - n)}

\* Lines 124-127: sample(n) raises when n exceeds the number of rows
Pairplot ==
    /\ pc = "Pairplot"
    /\ LET n == SampleSize(Len(df.rows))
           labels == {df.rows[i].idx : i \in 1..Len(df.rows)}
       IN  IF n > Len(df.rows)
           THEN /\ Raise("Pairplot")
                /\ UNCHANGED << pdf, sample >>
           ELSE /\ \E s \in Sample(labels, n) : sample' = s
                /\ savefig(<< Figure("Sampled Pairwise Plot", numerical_cols, <<>>) >>)
                /\ pc' = "Grouped"
                /\ UNCHANGED failedAt
    /\ UNCHANGED << input, df, numerical_cols, categorical_cols, console, corr,
                    pending, seen, count, df_map, heatmaps >>

\* Line 131
grouping_cols == << "Shipping mode", "Product category", "Customer segment" >>

\* Lines 130-141: df.groupby(col)['Revenue generated'] raises KeyError when
\* the Table has col but not 'Revenue generated'
Grouped ==
    /\ pc = "Grouped"
    /\ LET present == SelectSeq(grouping_cols, Has)
       IN  IF present # <<>> /\ ~Has("Revenue generated")
           THEN /\ Raise("Grouped")
                /\ UNCHANGED pdf
           ELSE /\ savefig([i \in 1..Len(present) |->
                              Figure("Grouped Revenue Bars", << present[i] >>, <<>>)])
                /\ pc' = "RegionBars"
                /\ UNCHANGED failedAt
    /\ UNCHANGED << input, df, numerical_cols, categorical_cols, console, corr,
                    pending, seen, count, sample, df_map, heatmaps >>

\* Lines 143-151
RegionBars ==
    /\ pc = "RegionBars"
    /\ IF Has("Region") /\ Has("Revenue generated")
       THEN savefig(<< Figure("Regional Revenue Bars", << "Region" >>, <<>>) >>)
       ELSE UNCHANGED pdf
    /\ pc' = "TopProducts"
    /\ UNCHANGED << input, failedAt, df, numerical_cols, categorical_cols,
                    console, corr, pending, seen, count, sample, df_map, heatmaps >>

\* Lines 153-161
TopProducts ==
    /\ pc = "TopProducts"
    /\ IF Has("Product name") /\ Has("Revenue generated")
       THEN savefig(<< Figure("Top Products Bars", << "Product name" >>, <<>>) >>)
       ELSE UNCHANGED pdf
    /\ pc' = "Map"
    /\ UNCHANGED << input, failedAt, df, numerical_cols, categorical_cols,
                    console, corr, pending, seen, count, sample, df_map, heatmaps >>

\* Variant: the weight column is not tested
MapAppliesCoordinatesOnly == Has("Latitude") /\ Has("Longitude")

\* Line 164
MapApplies == Has("Latitude") /\ Has("Longitude") /\ Has("Revenue generated")

\* Lines 163-189
Map ==
    /\ pc = "Map"
    /\ IF MapApplies
       THEN LET filtered == dropna(df.rows, {"Latitude", "Longitude"})
            IN  /\ df_map' = filtered
                /\ IF filtered # <<>>
                   THEN /\ heatmaps' = heatmaps + 1
                        /\ console' = Append(console, MsgMapSaved)
                   ELSE /\ console' = Append(console, MsgMapNoData)
                        /\ UNCHANGED heatmaps
       ELSE /\ console' = Append(console, MsgMapNoColumns)
            /\ UNCHANGED << df_map, heatmaps >>
    /\ pc' = "SavePdf"
    /\ UNCHANGED << input, failedAt, df, numerical_cols, categorical_cols, pdf,
                    corr, pending, seen, count, sample >>

\* Variant: the document is left open
PdfCloseMissing(p) == p

\* pdf.close()
PdfClose(p) == [p EXCEPT !.closed = @ + 1]

\* Lines 192-194
SavePdf ==
    /\ pc = "SavePdf"
    /\ pdf' = PdfClose(pdf)
    /\ console' = Append(console, MsgPdfCreated)
    /\ pc' = "done"
    /\ UNCHANGED << input, failedAt, df, numerical_cols, categorical_cols,
                    corr, pending, seen, count, sample, df_map, heatmaps >>

Next ==
    \/ Load
    \/ Select
    \/ InitPdf
    \/ BoxPlot
    \/ Histogram
    \/ KDE
    \/ LinePlot
    \/ Heatmap
    \/ Violin
    \/ Frequency
    \/ ScatterSort
    \/ ScatterLoop
    \/ Pairplot
    \/ Grouped
    \/ RegionBars
    \/ TopProducts
    \/ Map
    \/ SavePdf

Spec == Init /\ [][Next]_vars

----------------------------------------------------------------------------
(* Vocabulary of the properties *)

Sections ==
    << "Load", "Select", "InitPdf", "BoxPlot", "Histogram", "KDE", "LinePlot",
       "Heatmap", "Violin", "Frequency", "ScatterSort", "ScatterLoop",
       "Pairplot", "Grouped", "RegionBars", "TopProducts", "Map", "SavePdf" >>

\* Section s has run to its end without raising
Past(s) ==
    \/ pc = "done"
    \/ pc \in Range(Sections) /\ Pos(Sections, pc) > Pos(Sections, s)
    \/ pc = "aborted" /\ Pos(Sections, failedAt) > Pos(Sections, s)

Kinds == [i \in 1..Len(pdf.figs) |-> pdf.figs[i].kind]

FiguresOf(kind) ==
    LET is(f) == f.kind = kind IN SelectSeq(pdf.figs, is)

\* The column pairs of the scatter plots in the document, in order
ScatterPairs ==
    LET figs == FiguresOf("Scatter Plot") IN [i \in 1..Len(figs) |-> figs[i].of]

Printed(msg) == Cardinality({i \in 1..Len(console) : console[i] = msg})

Repeat(x, k) == [i \in 1..k |-> x]

----------------------------------------------------------------------------
(* C1: end-to-end scenario *)

ScenarioHead ==
    << "Box Plot", "Histogram Grid", "KDE Grid", "Revenue Line Plot",
       "Correlation Heatmap" >>

ScenarioTail ==
    << "Sampled Pairwise Plot", "Regional Revenue Bars", "Top Products Bars" >>

\* C1 as stated: on the scenario table (Revenue generated, Region, Product
\* name, 3 other numeric fields, 50 complete rows) the finished document holds
\* Box Plot, Histogram Grid, KDE Grid, Revenue Line Plot, Correlation Heatmap,
\* up to 5 Scatter Plots, Sampled Pairwise Plot, Regional Revenue Bars, Top
\* Products Bars, nothing else in between, and the violin notice is printed.
C1_ScenarioAsStated ==
    (input = ScenarioTable /\ pc = "done") =>
        /\ \E k \in 0..ScatterLimit :
             Kinds = ScenarioHead \o Repeat("Scatter Plot", k) \o ScenarioTail
        /\ Printed(MsgViolinSkipped) = 1

\* C1 amended: the same sequence, with one Frequency Bars figure per
\* categorical column (Product name and Region, in column order) between the
\* Correlation Heatmap and the Scatter Plots.
C1_ScenarioWithFrequencyBars ==
    (input = ScenarioTable /\ pc = "done") =>
        /\ \E k \in 0..ScatterLimit :
             Kinds = ScenarioHead \o Repeat("Frequency Bars", 2)
                        \o Repeat("Scatter Plot", k) \o ScenarioTail
        /\ LET freq == FiguresOf("Frequency Bars")
           IN  << freq[1].of[1], freq[2].of[1] >> = InFileOrder({"Region", "Product name"})
        /\ FiguresOf("Violin Plot") = <<>>
        /\ Printed(MsgViolinSkipped) = 1

C1_Witness ==
    /\ input = ScenarioTable
    /\ pc = "done"
    /\ Len(df.rows) = ScenarioRows
    /\ Len(FiguresOf("Scatter Plot")) = ScatterLimit

----------------------------------------------------------------------------
(* C2: a conditional generator whose column is absent is skipped *)

\* The conditional generators: the section each runs in, the kind and the
\* subject of its figure, and the columns it reads
ConditionalGenerators ==
    { [section |-> "LinePlot", kind |-> "Revenue Line Plot",
       of |-> << "Revenue generated" >>, reads |-> {"Revenue generated"}],
      [section |-> "Violin", kind |-> "Violin Plot",
       of |-> << "Product type", "Defect rates" >>,
       reads |-> {"Product type", "Defect rates"}],
      [section |-> "RegionBars", kind |-> "Regional Revenue Bars",
       of |-> << "Region" >>, reads |-> {"Region", "Revenue generated"}],
      [section |-> "TopProducts", kind |-> "Top Products Bars",
       of |-> << "Product name" >>, reads |-> {"Product name", "Revenue generated"}],
      [section |-> "Map", kind |-> "Geospatial Heatmap",
       of |-> <<>>, reads |-> {"Latitude", "Longitude", "Revenue generated"}] }
    \cup
    { [section |-> "Grouped", kind |-> "Grouped Revenue Bars",
       of |-> << grouping_cols[i] >>,
       reads |-> {grouping_cols[i], "Revenue generated"}] : i \in 1..3 }

\* C2: for every conditional generator and every table that lacks a column the
\* generator reads, the generator's section raises no error, the generator
\* produces nothing, and a run that gets as far as that section is not ended
\* by it (it goes on towards closing the document).
C2_AbsentColumnIsSkipped ==
    \A g \in ConditionalGenerators :
        (pc # "Load" /\ failedAt # "Load" /\ ~(g.reads \subseteq Range(df.columns))) =>
            /\ failedAt # g.section
            /\ \A i \in 1..Len(pdf.figs) :
                 ~(pdf.figs[i].kind = g.kind /\ pdf.figs[i].of = g.of)
            /\ g.section = "Map" => heatmaps = 0

----------------------------------------------------------------------------
(* C3: the document is closed exactly once, last *)

MapStepDone ==
    Printed(MsgMapSaved) + Printed(MsgMapNoData) + Printed(MsgMapNoColumns) = 1

C3_State ==
    /\ pc = "done" => (pdf.opened = 1 /\ pdf.closed = 1 /\ MapStepDone)
    /\ pc # "done" => pdf.closed = 0
    /\ pdf.opened <= 1

C3_Step ==
    /\ pdf.closed' # pdf.closed => (pc = "SavePdf" /\ pc' = "done" /\ MapStepDone)
    /\ pdf.closed >= 1 => (pdf.figs' = pdf.figs /\ heatmaps' = heatmaps)

\* C3: a run that reaches the end has opened the document once and closed it
\* exactly once; the close comes after every figure append and after the
\* geospatial step, nothing is appended after it; a run that aborts never
\* closes the document.
C3_ClosedExactlyOnceAtEnd == [](C3_State) /\ [][C3_Step]_vars

C3_Witness ==
    /\ pc = "done"
    /\ pdf.closed = 1
    /\ Len(pdf.figs) > 10
    /\ heatmaps = 1

----------------------------------------------------------------------------
(* C4, C5: the scatter plots of the top correlated pairs *)

\* C4: the sequence of column pairs a scatter plot is emitted for has no pair
\* (c, c), no pair twice, and never both (a, b) and (b, a).
C4_NoSelfNoReverseNoRepeat ==
    LET p == ScatterPairs
    IN  /\ \A i \in 1..Len(p) : p[i][1] # p[i][2]
        /\ \A i, j \in 1..Len(p) :
             i # j => (p[i] # p[j] /\ p[i] # << p[j][2], p[j][1] >>)

\* Three tied columns (every correlation NaN), all three pairs emitted
C4_Witness ==
    /\ Past("ScatterLoop")
    /\ Len(numerical_cols) = 3
    /\ \A e \in DOMAIN corr : corr[e] = NaN
    /\ Len(ScatterPairs) = 3

\* C5: with n >= 1 numerical columns the pair selector appends exactly
\* min(5, n*(n-1)/2) scatter plots, whatever the correlations and the order
\* of ties.
C5_ScatterCount ==
    LET n == Len(numerical_cols)
    IN  (Past("ScatterLoop") /\ n >= 1) =>
            Len(ScatterPairs) = Min(5, (n * (n - 1)) \div 2)

\* Four columns: six pairs, five plots
C5_Witness ==
    /\ Past("ScatterLoop")
    /\ Len(numerical_cols) = 4
    /\ Len(ScatterPairs) = 5

----------------------------------------------------------------------------
(* C6: the geospatial step *)

MapSkips == Printed(MsgMapNoData) + Printed(MsgMapNoColumns)

\* Some row of the Table has both coordinates
HasCoordinates ==
    \E i \in 1..Len(df.rows) :
        df.rows[i].cells["Latitude"] # NA /\ df.rows[i].cells["Longitude"] # NA

\* C6: once the geospatial step has run, either the heatmap was written once
\* and no skip diagnostic printed, or one skip diagnostic was printed and no
\* heatmap written; it was written exactly when Latitude, Longitude and
\* Revenue generated are all present and some row has both coordinates; a
\* table without Latitude or Longitude gets no heatmap and the diagnostic that
\* names the missing columns.
C6_HeatmapOrDiagnostic ==
    Past("Map") =>
        /\ \/ heatmaps = 1 /\ Printed(MsgMapSaved) = 1 /\ MapSkips = 0
           \/ heatmaps = 0 /\ Printed(MsgMapSaved) = 0 /\ MapSkips = 1
        /\ heatmaps = 1 <=>
             /\ {"Latitude", "Longitude", "Revenue generated"} \subseteq Range(df.columns)
             /\ HasCoordinates
        /\ ~({"Latitude", "Longitude"} \subseteq Range(df.columns)) =>
             (heatmaps = 0 /\ Printed(MsgMapNoColumns) = 1)

C6_Witness ==
    /\ pc = "done"
    /\ "Latitude" \notin Range(df.columns)
    /\ "Longitude" \in Range(df.columns)
    /\ "Revenue generated" \in Range(df.columns)
    /\ heatmaps = 0
    /\ Printed(MsgMapNoColumns) = 1

----------------------------------------------------------------------------
(* C7: the pairplot sample *)

RowLabels == {df.rows[i].idx : i \in 1..Len(df.rows)}

\* C7: with r >= 1 rows in the Table the pairplot step does not fail and draws
\* exactly min(500, r) rows, each a row of the Table and none drawn twice.
C7_SampleSizeAndDistinct ==
    LET r == Len(df.rows)
    IN  (pc # "Load" /\ r >= 1) =>
            /\ failedAt # "Pairplot"
            /\ Past("Pairplot") =>
                 /\ BagCardinality(sample) = Min(500, r)
                 /\ BagToSet(sample) \subseteq RowLabels
                 /\ \A x \in BagToSet(sample) : CopiesIn(x, sample) = 1

\* More rows than the cap: 500 of them drawn
C7_Witness ==
    /\ Past("Pairplot")
    /\ Len(df.rows) > 500
    /\ BagCardinality(sample) = 500

----------------------------------------------------------------------------
(* C8: the Table after loading *)

Loaded == pc # "Load" /\ failedAt # "Load"

CompleteInFile(j) == \A c \in Range(input.columns) : input.rows[j][c] # NA

C8_State ==
    Loaded =>
        /\ df.columns = input.columns
        /\ \A i \in 1..Len(df.rows) :
             /\ df.rows[i].idx \in 1..Len(input.rows)
             /\ df.rows[i].cells = input.rows[df.rows[i].idx]
             /\ \A c \in Range(df.columns) : df.rows[i].cells[c] # NA
        /\ \A i \in 1..(Len(df.rows) - 1) : df.rows[i].idx < df.rows[i + 1].idx
        /\ LET kept == {df.rows[i].idx : i \in 1..Len(df.rows)}
           IN  \A j \in 1..Len(input.rows) : CompleteInFile(j) => j \in kept

C8_Step == pc # "Load" => df' = df

\* C8: the Table after loading has no row with a missing value, has every
\* input row without a missing value, unchanged and in the original relative
\* order, and no later step changes the Table (the geospatial step filters a
\* copy).
C8_LoadedTableCompleteAndFrozen == [](C8_State) /\ [][C8_Step]_vars

\* A file of two rows, the first with a missing cell, after the geospatial
\* step has made its copy
C8_Witness ==
    /\ pc = "done"
    /\ heatmaps = 1
    /\ Len(input.rows) = 2
    /\ ~CompleteInFile(1)
    /\ Len(df.rows) = 1
    /\ df.rows[1].idx = 2
    /\ df_map = df.rows

----------------------------------------------------------------------------
(* C9: the histogram and KDE grids *)

Grids == FiguresOf("Histogram Grid") \o FiguresOf("KDE Grid")

\* C9: with n >= 1 numerical columns, the Histogram Grid and the KDE Grid each
\* have 4 * ceil(n/4) cells (the least multiple of 4 that is at least n); the
\* i-th numerical column is drawn in cell i and nowhere else; the cells from
\* n on are hidden and empty, the cells before are not hidden.
C9_GridLayout ==
    LET n == Len(numerical_cols)
    IN  /\ (Past("Histogram") /\ n >= 1) => Len(FiguresOf("Histogram Grid")) = 1
        /\ (Past("KDE") /\ n >= 1) => Len(FiguresOf("KDE Grid")) = 1
        /\ \A g \in 1..Len(Grids) :
             LET axs == Grids[g].axs
             IN  /\ Len(axs) % 4 = 0
                 /\ Len(axs) >= n
                 /\ Len(axs) - n < 4
                 /\ \A k \in 1..Len(axs) :
                      IF k <= n
                      THEN axs[k].drawn = << numerical_cols[k] >> /\ ~axs[k].off
                      ELSE axs[k].drawn = <<>> /\ axs[k].off

\* Five columns: eight cells, the last three hidden
C9_Witness ==
    /\ Past("KDE")
    /\ Len(numerical_cols) = 5
    /\ Len(Grids) = 2
    /\ Len(Grids[2].axs) = 8
    /\ Grids[2].axs[6].off

----------------------------------------------------------------------------
(* C10: the empty-coordinates diagnostic is dead *)

\* C10: the diagnostic "No valid Latitude/Longitude data after dropping NaNs"
\* is never printed: the coordinate filter of the geospatial step removes no
\* row of the Table, and a Table with zero rows never gets past the pairplot
\* step.
C10_NoDataDiagnosticNeverPrinted ==
    /\ Printed(MsgMapNoData) = 0
    /\ (Past("Map") /\ {"Latitude", "Longitude", "Revenue generated"} \subseteq Range(df.columns))
         => df_map = df.rows
    /\ (Loaded /\ Len(df.rows) = 0) => ~Past("Pairplot")

\* A file with the three map columns whose every row is dropped by the
\* loader: the run ends in the pairplot step
C10_Witness ==
    /\ pc = "aborted"
    /\ failedAt = "Pairplot"
    /\ {"Latitude", "Longitude", "Revenue generated"} \subseteq Range(df.columns)
    /\ Len(input.rows) > 0
    /\ Len(df.rows) = 0

====
